---- MODULE Spec2Model ----
(***************************************************************************)
(* Model of courana/localops: the FastAPI gateway (app/api/routes.py), the *)
(* process-wide cluster list (app/core/config.py), the Cluster models      *)
(* (app/models/cluster.py) and the two connectors                          *)
(* (app/services/kubernetes_service.py, prometheus_service.py).            *)
(*                                                                         *)
(* Handlers are `async def` functions on one event loop: a handler runs    *)
(* without interruption up to its next `await`.  create_cluster,           *)
(* get_clusters and get_cluster_pods contain no await (the Kubernetes      *)
(* client is synchronous), so each is one atomic action.  Only             *)
(* PrometheusService.query awaits (session.get / response.json), so a      *)
(* metrics call is a sequence of issue/respond steps.                      *)
(***************************************************************************)
EXTENDS Integers, Sequences, FiniteSets, TLC

VARIABLES
    CLUSTERS,    \* settings.CLUSTERS, the process-wide list of records
    proc,        \* per request / direct call: its position, inputs, outcome
    now,         \* the wall clock read by datetime.now()
    registered,  \* history: the records returned by successful POST /clusters
    ser          \* the serialisation study: two record lists and their dumps

vars == <<CLUSTERS, proc, now, registered, ser>>

----------------------------------------------------------------------------
(* Bounds of the model *)

NumReqs == 2        \* gateway requests that can be outstanding together
MaxClock == 1       \* the clock runs 0..MaxClock
MaxClusters == 2    \* registrations are not started beyond this list length

Reqs == 1..NumReqs          \* gateway request slots
Direct == 0                 \* a direct caller of a connector method
Procs == Reqs \cup {Direct}

None == "None"              \* Python's None where a string may stand

Raise(msg) == [raised |-> TRUE, detail |-> msg]
Return(v) == [raised |-> FALSE, value |-> v]

Idle == [op |-> "none", pc |-> "idle"]

----------------------------------------------------------------------------
(* app/models/cluster.py *)

ClusterBaseFields == {"name", "description", "kubeconfig", "prometheus_url"}
ClusterFields == ClusterBaseFields \cup {"id", "status", "nodes", "namespaces"}
ClusterMetricsFields ==
    {"cpu_usage", "memory_usage", "pod_count", "node_count", "timestamp"}

\* Serialisation through response_model=Cluster: every declared field of the
\* model is emitted, none is excluded.
ClusterDump(c) == [f \in ClusterFields \cap DOMAIN c |-> c[f]]

\* ClusterMetrics(**kw): every field is required; unknown keys are ignored.
ClusterMetricsValid(kw) == ClusterMetricsFields \subseteq DOMAIN kw

----------------------------------------------------------------------------
(* Inputs and the outside world *)

\* ClusterCreate bodies of POST /clusters
Bodies ==
    { [name |-> "prod", description |-> None,
       kubeconfig |-> "kcA", prometheus_url |-> None],
      [name |-> "dev", description |-> "staging",
       kubeconfig |-> "kcB", prometheus_url |-> "http://prom:9090"] }

\* What the control plane behind a kubeconfig answers
KubeWorlds ==
    { [load |-> "error", list_node |-> "ok", list_namespace |-> "ok",
       list_pod |-> "ok"],
      [load |-> "ok", list_node |-> "ApiException", list_namespace |-> "ok",
       list_pod |-> "ok"],
      [load |-> "ok", list_node |-> "ok", list_namespace |-> "ApiException",
       list_pod |-> "ApiException"],
      [load |-> "ok", list_node |-> "ok", list_namespace |-> "ok",
       list_pod |-> "ok"] }

NodeItems == <<"node-a", "node-b", "node-c">>
NamespaceNames == <<"default", "kube-system">>
PodItems ==
    << [name |-> "web-0", phase |-> "Running", containers |-> <<"app", "sidecar">>],
       [name |-> "job-1", phase |-> "Pending", containers |-> <<"run">>] >>

ClusterIds == {"1", "2"}
Namespaces == {"default"}

----------------------------------------------------------------------------
(* app/services/kubernetes_service.py *)

\* __init__ / _get_api_client: any failure to load the kubeconfig is re-raised
KubernetesService(world) ==
    IF world.load = "ok" THEN Return(world)
    ELSE Raise("kubernetes client init error")

get_cluster_info(world) ==
    IF world.list_node = "ok" /\ world.list_namespace = "ok"
    THEN Return([node_count |-> Len(NodeItems), namespaces |-> NamespaceNames])
    ELSE Raise("cluster info error")

get_pods(world, namespace) ==
    IF world.list_pod = "ok"
    THEN Return([i \in DOMAIN PodItems |->
                   [name |-> PodItems[i].name, status |-> PodItems[i].phase,
                    containers |-> PodItems[i].containers]])
    ELSE Raise("pod list error")

----------------------------------------------------------------------------
(* app/api/routes.py *)

\* next((c for c in settings.CLUSTERS if c.id == cluster_id), None):
\* the index of the first match, 0 for None
FindCluster(clusters, cluster_id) ==
    IF \E i \in DOMAIN clusters : clusters[i].id = cluster_id
    THEN CHOOSE i \in DOMAIN clusters :
            /\ clusters[i].id = cluster_id
            /\ \A j \in 1..(i - 1) : clusters[j].id # cluster_id
    ELSE 0

\* GET /clusters
get_clusters(clusters) ==
    [status |-> 200, body |-> [i \in DOMAIN clusters |-> ClusterDump(clusters[i])]]

\* Cluster(id=..., name=cluster.name, ...): the record built at lines 22-31
Cluster(id, cluster, status, nodes, namespaces) ==
    [id |-> id, name |-> cluster.name, description |-> cluster.description,
     kubeconfig |-> cluster.kubeconfig, prometheus_url |-> cluster.prometheus_url,
     status |-> status, nodes |-> nodes, namespaces |-> namespaces]

\* POST /clusters: the whole try block; every exception becomes a 400.
create_cluster_partialInsert(clusters, cluster, world) ==
    LET k8s_service == KubernetesService(world)
        cluster_info == get_cluster_info(world)
        pending == Cluster(ToString(Len(clusters) + 1), cluster, "unreachable",
                           <<>>, <<>>)
        fail(msg) == [status |-> 400, detail |-> msg,
                      clusters |-> Append(clusters, pending)]
    IN IF k8s_service.raised THEN fail(k8s_service.detail)
       ELSE IF cluster_info.raised THEN fail(cluster_info.detail)
       ELSE fail("KeyError: 'nodes'")
\* get_cluster_info returns the keys "node_count" and "namespaces"; line 29
\* subscripts the result with "nodes", which raises KeyError when absent.
create_cluster(clusters, cluster, world) ==
    LET k8s_service == KubernetesService(world)
        cluster_info == get_cluster_info(world)
        fail(msg) == [status |-> 400, detail |-> msg, clusters |-> clusters]
    IN IF k8s_service.raised THEN fail(k8s_service.detail)
       ELSE IF cluster_info.raised THEN fail(cluster_info.detail)
       ELSE IF "nodes" \notin DOMAIN cluster_info.value THEN fail("KeyError: 'nodes'")
       ELSE LET new_cluster ==
                    Cluster(ToString(Len(clusters) + 1), cluster, "active",
                            cluster_info.value["nodes"],
                            cluster_info.value["namespaces"])
            IN [status |-> 200, body |-> ClusterDump(new_cluster),
                clusters |-> Append(clusters, new_cluster)]

\* GET /clusters/{cluster_id}/metrics, up to the try block: status 0 means
\* "go on to the metrics connector".
get_cluster_metrics_noNotFound(clusters, cluster_id) ==
    LET i == FindCluster(clusters, cluster_id)
    IN IF i = 0 THEN [status |-> 500, idx |-> 0]
       ELSE IF clusters[i].prometheus_url \in {None, ""} THEN [status |-> 400, idx |-> i]
       ELSE [status |-> 0, idx |-> i]
get_cluster_metrics_lookup(clusters, cluster_id) ==
    LET i == FindCluster(clusters, cluster_id)
    IN IF i = 0 THEN [status |-> 404, idx |-> 0]
       ELSE IF clusters[i].prometheus_url \in {None, ""} THEN [status |-> 400, idx |-> i]
       ELSE [status |-> 0, idx |-> i]

\* GET /clusters/{cluster_id}/pods; calls counts the control-plane requests.
get_cluster_pods(clusters, cluster_id, namespace, world) ==
    LET i == FindCluster(clusters, cluster_id)
        k8s_service == KubernetesService(world)
        pods == get_pods(world, namespace)
    IN IF i = 0 THEN [status |-> 404, calls |-> 0]
       ELSE IF k8s_service.raised THEN [status |-> 500, calls |-> 0]
       ELSE IF pods.raised THEN [status |-> 500, calls |-> 1]
       ELSE [status |-> 200, calls |-> 1, body |-> pods.value]

----------------------------------------------------------------------------
(* app/services/prometheus_service.py *)

PromUrls == {"http://prom:9090", "http://prom:9090/"}

\* __init__: prometheus_url.rstrip('/')
PrometheusService(prometheus_url) ==
    IF prometheus_url = "http://prom:9090/" THEN "http://prom:9090"
    ELSE prometheus_url

ClusterMetricNames == <<"cpu_usage", "memory_usage", "pod_count", "node_count">>
PodMetricNames == <<"cpu", "memory", "network">>

\* What one HTTP GET of /api/v1/query can end in
HttpOutcomes ==
    { [kind |-> "response", status |-> 200],
      [kind |-> "response", status |-> 500],
      [kind |-> "transport", status |-> 0] }

QueryFailed(outcome) == outcome.kind # "response" \/ outcome.status # 200

\* query(): a transport error propagates, a non-200 response raises, a 200
\* response returns its JSON body.
query_noStatusCheck(base, expr, outcome) ==
    IF outcome.kind = "transport" THEN Raise("aiohttp.ClientError")
    ELSE Return([url |-> base, query |-> expr, status |-> outcome.status])
query(base, expr, outcome) ==
    IF outcome.kind = "transport" THEN Raise("aiohttp.ClientError")
    ELSE IF outcome.status # 200 THEN Raise("prometheus query error")
    ELSE Return([url |-> base, query |-> expr, status |-> outcome.status])

\* datetime.isoformat()
IsoFormat(t) == ToString(t)

\* The dict literal {name: await self.query(...), ...}
MetricsDict(names, got) ==
    [k \in {names[i] : i \in DOMAIN names} |->
        got[CHOOSE i \in DOMAIN names : names[i] = k]]

\* The value get_cluster_metrics / get_pod_metrics returns: the query results
\* sit under the key "metrics", beside "timestamp".
Assemble(op, names, got, t0, tnow) ==
    [timestamp |-> IsoFormat(IF op = "get_cluster_metrics" THEN t0 ELSE tnow),
     metrics |-> MetricsDict(names, got)]

\* The state of a connector call entering its first query.  `now` is read at
\* entry by get_cluster_metrics (line 23).
BeginCall_gather(op, via, cluster_id, base, names, t) ==
    [op |-> op, pc |-> "query", via |-> via, cluster_id |-> cluster_id,
     base |-> base, names |-> names, inflight |-> FALSE, issued |-> Len(names),
     got |-> <<>>, outcomes |-> <<>>, t0 |-> t]
BeginCall(op, via, cluster_id, base, names, t) ==
    [op |-> op, pc |-> "query", via |-> via, cluster_id |-> cluster_id,
     base |-> base, names |-> names, inflight |-> FALSE, issued |-> 0,
     got |-> <<>>, outcomes |-> <<>>, t0 |-> t]

\* routes.py 48-53: the try block around the connector call.
RouteMetricsResponse(result) ==
    IF result.raised THEN [status |-> 500, detail |-> result.detail]
    ELSE IF ~ClusterMetricsValid(result.value)
         THEN [status |-> 500, detail |-> "ValidationError"]
    ELSE [status |-> 200,
          body |-> [f \in ClusterMetricsFields |-> result.value[f]]]

\* The record a connector call (or the route around it) ends in.
EndCall(pr, result) ==
    LET common == [op |-> pr.op, pc |-> "done", via |-> pr.via,
                   cluster_id |-> pr.cluster_id, names |-> pr.names,
                   issued |-> pr.issued, outcomes |-> pr.outcomes]
    IN IF pr.via = "route"
       THEN common @@ RouteMetricsResponse(result) @@ [raised |-> result.raised]
       ELSE common @@ result

\* One response arriving for the query in flight: the awaited query() returns
\* or raises; after the last query the call assembles its result.
AfterResponse(pr, outcome, tnow) ==
    LET k == Len(pr.got) + 1
        r == query(pr.base, pr.names[k], outcome)
        seen == [pr EXCEPT !.outcomes = Append(@, outcome), !.inflight = FALSE]
    IN IF r.raised THEN EndCall(seen, r)
       ELSE IF k = Len(pr.names)
            THEN EndCall(seen, Return(Assemble(pr.op, pr.names,
                                               Append(pr.got, r.value), pr.t0, tnow)))
       ELSE [seen EXCEPT !.got = Append(@, r.value)]

----------------------------------------------------------------------------
(* KubernetesService.apply_manifest *)

\* Strings of a manifest are sequences of characters, so that lower() and
\* split() are computed.  Parsed YAML values are tagged: a string, a mapping,
\* or something else (a number, null, a list).
Str(chars) == [t |-> "str", s |-> chars]
Map(m) == [t |-> "map", m |-> m]
Other == [t |-> "other"]
EmptyMap == [k \in {} |-> Other]

Upper == <<"A","B","C","D","E","F","G","H","I","J","K","L","M",
           "N","O","P","Q","R","S","T","U","V","W","X","Y","Z">>
LowerOf == <<"a","b","c","d","e","f","g","h","i","j","k","l","m",
             "n","o","p","q","r","s","t","u","v","w","x","y","z">>

\* str.lower(), character by character
LowerChar(c) ==
    IF \E i \in DOMAIN Upper : Upper[i] = c
    THEN LowerOf[CHOOSE i \in DOMAIN Upper : Upper[i] = c]
    ELSE c
Lower_identity(chars) == chars
Lower(chars) == [i \in DOMAIN chars |-> LowerChar(chars[i])]

\* str.split("/")[0]: the text before the first "/"
SplitFirst(chars) ==
    IF \E i \in DOMAIN chars : chars[i] = "/"
    THEN SubSeq(chars, 1,
                (CHOOSE i \in DOMAIN chars :
                    chars[i] = "/" /\ \A j \in 1..(i - 1) : chars[j] # "/") - 1)
    ELSE chars

\* dict.get(key, default)
Get(m, key, default) == IF key \in DOMAIN m THEN m[key] ELSE default

sDeployment == <<"D","e","p","l","o","y","m","e","n","t">>
sdeployment == <<"d","e","p","l","o","y","m","e","n","t">>
sDEPLOYMENT == <<"D","E","P","L","O","Y","M","E","N","T">>
sService == <<"S","e","r","v","i","c","e">>
sAppsV1 == <<"a","p","p","s","/","v","1">>
sDefault == <<"d","e","f","a","u","l","t">>
sProd == <<"p","r","o","d">>

KindValues == {Str(sDeployment), Str(sdeployment), Str(sDEPLOYMENT), Str(sService), Other}
MetadataValues == {Map(EmptyMap), Map("namespace" :> Str(sProd)), Other}

Opt(key, values) == {EmptyMap} \cup {key :> v : v \in values}

\* The manifest texts, each given by what yaml.safe_load makes of it: a parse
\* error, a document that is no mapping, or a mapping.
Manifests ==
    { [yaml |-> "error", doc |-> Other], [yaml |-> "ok", doc |-> Other] }
    \cup { [yaml |-> "ok", doc |-> Map(("apiVersion" :> Str(sAppsV1)) @@ k @@ md)] :
             k \in Opt("kind", KindValues),
             md \in Opt("metadata", MetadataValues) }
    \cup { [yaml |-> "ok", doc |-> Map(a @@ ("kind" :> Str(sDeployment)))] :
             a \in Opt("apiVersion", {Other}) }

\* What the control plane answers to create_namespaced_deployment
CreateOutcomes == {"created", "ApiException"}

\* The body of the try block, in the order the code evaluates it; calls lists
\* the control-plane requests made.  A Python function that falls off its end
\* returns None.
apply_manifest(manifest, outcome) ==
    LET wrap(msg) == [raised |-> TRUE, detail |-> msg]
        d == manifest.doc
        av == Get(d.m, "apiVersion", Str(<<>>))
        api_version == SplitFirst(av.s)
        kd == Get(d.m, "kind", Str(<<>>))
        md == Get(d.m, "metadata", Map(EmptyMap))
        ns == Get(md.m, "namespace", Str(sDefault))
    IN IF manifest.yaml = "error"
       THEN wrap("yaml.YAMLError") @@ [calls |-> <<>>]
       ELSE IF d.t # "map" THEN wrap("AttributeError: get") @@ [calls |-> <<>>]
       ELSE IF av.t # "str" THEN wrap("AttributeError: split") @@ [calls |-> <<>>]
       ELSE IF kd.t # "str" THEN wrap("AttributeError: lower") @@ [calls |-> <<>>]
       ELSE IF Lower(kd.s) = sdeployment
            THEN IF md.t # "map"
                 THEN wrap("AttributeError: get") @@ [calls |-> <<>>]
                 ELSE LET call == [api |-> "create_namespaced_deployment",
                                   namespace |-> ns.s, body |-> d]
                      IN IF outcome = "created"
                         THEN [raised |-> FALSE, returned |-> "V1Deployment",
                               calls |-> <<call>>]
                         ELSE wrap("ApiException") @@ [calls |-> <<call>>]
       ELSE [raised |-> FALSE, returned |-> None, calls |-> <<>>]

----------------------------------------------------------------------------
(* The state machine *)

\* settings = Settings() with the declared default CLUSTERS = [] (config.py:25)
Init ==
    /\ CLUSTERS = <<>>
    /\ proc = [p \in Procs |-> Idle]
    /\ now = 0
    /\ registered = <<>>
    /\ ser = [a |-> <<>>, b |-> <<>>, out |-> EmptyMap]

\* GET /clusters
GetClusters(p) ==
    /\ p \in Reqs /\ proc[p].pc = "idle"
    /\ proc' = [proc EXCEPT ![p] =
                  [op |-> "get_clusters", pc |-> "done"] @@ get_clusters(CLUSTERS)]
    /\ UNCHANGED <<CLUSTERS, now, registered, ser>>

\* POST /clusters: one atomic step, the handler has no await
CreateCluster(p) ==
    /\ p \in Reqs /\ proc[p].pc = "idle"
    /\ Len(CLUSTERS) < MaxClusters
    /\ \E cluster \in Bodies, world \in KubeWorlds :
         LET r == create_cluster(CLUSTERS, cluster, world)
         IN /\ CLUSTERS' = r.clusters
            /\ proc' = [proc EXCEPT ![p] =
                          [op |-> "create_cluster", pc |-> "done", world |-> world,
                           status |-> r.status,
                           body |-> IF r.status = 200 THEN r.body ELSE EmptyMap]]
            /\ registered' = IF r.status = 200 THEN Append(registered, r.body)
                             ELSE registered
    /\ UNCHANGED <<now, ser>>

\* GET /clusters/{cluster_id}/metrics: the lookup, then the connector call
GetClusterMetrics(p) ==
    /\ p \in Reqs /\ proc[p].pc = "idle"
    /\ \E cluster_id \in ClusterIds :
         LET r == get_cluster_metrics_lookup(CLUSTERS, cluster_id)
         IN proc' = [proc EXCEPT ![p] =
               IF r.status # 0
               THEN [op |-> "get_cluster_metrics", pc |-> "done", via |-> "route",
                     cluster_id |-> cluster_id, names |-> ClusterMetricNames,
                     issued |-> 0, outcomes |-> <<>>, status |-> r.status,
                     raised |-> FALSE]
               ELSE BeginCall("get_cluster_metrics", "route", cluster_id,
                              PrometheusService(CLUSTERS[r.idx].prometheus_url),
                              ClusterMetricNames, now)]
    /\ UNCHANGED <<CLUSTERS, now, registered, ser>>

\* GET /clusters/{cluster_id}/pods: one atomic step
GetClusterPods(p) ==
    /\ p \in Reqs /\ proc[p].pc = "idle"
    /\ \E cluster_id \in ClusterIds, namespace \in Namespaces, world \in KubeWorlds :
         proc' = [proc EXCEPT ![p] =
                    [op |-> "get_cluster_pods", pc |-> "done",
                     cluster_id |-> cluster_id, namespace |-> namespace]
                    @@ get_cluster_pods(CLUSTERS, cluster_id, namespace, world)]
    /\ UNCHANGED <<CLUSTERS, now, registered, ser>>

\* PrometheusService(url).get_cluster_metrics(name), called directly
CallClusterMetrics ==
    /\ proc[Direct].pc = "idle"
    /\ \E url \in PromUrls :
         proc' = [proc EXCEPT ![Direct] =
                    BeginCall("get_cluster_metrics", "direct", None,
                              PrometheusService(url), ClusterMetricNames, now)]
    /\ UNCHANGED <<CLUSTERS, now, registered, ser>>

\* PrometheusService(url).get_pod_metrics(name, namespace, pod), called directly
CallPodMetrics ==
    /\ proc[Direct].pc = "idle"
    /\ \E url \in PromUrls :
         proc' = [proc EXCEPT ![Direct] =
                    BeginCall("get_pod_metrics", "direct", None,
                              PrometheusService(url), PodMetricNames, now)]
    /\ UNCHANGED <<CLUSTERS, now, registered, ser>>

\* KubernetesService(kubeconfig).apply_manifest(text), called directly
ApplyManifest ==
    /\ proc[Direct].pc = "idle"
    /\ \E manifest \in Manifests, outcome \in CreateOutcomes :
         proc' = [proc EXCEPT ![Direct] =
                    [op |-> "apply_manifest", pc |-> "done", manifest |-> manifest]
                    @@ apply_manifest(manifest, outcome)]
    /\ UNCHANGED <<CLUSTERS, now, registered, ser>>

\* query(): session.get is sent and awaited
QueryIssue(p) ==
    /\ proc[p].pc = "query" /\ ~proc[p].inflight
    /\ proc' = [proc EXCEPT ![p] = [@ EXCEPT !.inflight = TRUE, !.issued = @ + 1]]
    /\ UNCHANGED <<CLUSTERS, now, registered, ser>>

\* query(): the awaited response (or transport error) arrives
QueryRespond(p) ==
    /\ proc[p].pc = "query" /\ proc[p].inflight
    /\ \E outcome \in HttpOutcomes :
         proc' = [proc EXCEPT ![p] = AfterResponse(proc[p], outcome, now)]
    /\ UNCHANGED <<CLUSTERS, now, registered, ser>>

\* The response has been delivered; the slot is free for the next request
Finish(p) ==
    /\ proc[p].pc = "done"
    /\ proc' = [proc EXCEPT ![p] = Idle]
    /\ UNCHANGED <<CLUSTERS, now, registered, ser>>

Tick ==
    /\ now < MaxClock
    /\ now' = now + 1
    /\ UNCHANGED <<CLUSTERS, proc, registered, ser>>

Next ==
    \/ \E p \in Reqs : GetClusters(p)
    \/ \E p \in Reqs : CreateCluster(p)
    \/ \E p \in Reqs : GetClusterMetrics(p)
    \/ \E p \in Reqs : GetClusterPods(p)
    \/ CallClusterMetrics
    \/ CallPodMetrics
    \/ ApplyManifest
    \/ \E p \in Procs : QueryIssue(p)
    \/ \E p \in Procs : QueryRespond(p)
    \/ \E p \in Procs : Finish(p)
    \/ Tick

Spec == Init /\ [][Next]_vars

----------------------------------------------------------------------------
(* The response serialisation on its own: what get_clusters returns for a    *)
(* list of Cluster records, over records that differ in their kubeconfig.    *)

Kubeconfigs == {"kcA", "kcB"}
SerBodies ==
    [name : {"prod", "dev"}, description : {None, "staging"},
     kubeconfig : Kubeconfigs, prometheus_url : {None, "http://prom:9090"}]
NodeDicts == <<[name |-> "node-a"]>>

InitSerialize ==
    /\ CLUSTERS = <<>>
    /\ proc = [p \in Procs |-> Idle]
    /\ now = 0
    /\ registered = <<>>
    /\ \E x \in SerBodies, k \in Kubeconfigs :
         ser = [a |-> <<Cluster("1", x, "active", NodeDicts, NamespaceNames)>>,
                b |-> <<Cluster("1", [x EXCEPT !.kubeconfig = k], "active",
                                NodeDicts, NamespaceNames)>>,
                out |-> EmptyMap]

\* GET /clusters answered from one of the two lists
Serialize(side) ==
    /\ side \notin DOMAIN ser.out
    /\ ser' = [ser EXCEPT !.out = @ @@ (side :> get_clusters(ser[side]))]
    /\ UNCHANGED <<CLUSTERS, proc, now, registered>>

NextSerialize == \E side \in {"a", "b"} : Serialize(side)

SpecSerialize == InitSerialize /\ [][NextSerialize]_vars

----------------------------------------------------------------------------
(* Properties *)

IsDone(p, op) == proc[p].pc = "done" /\ proc[p].op = op
ProbeOk(world) ==
    world.load = "ok" /\ world.list_node = "ok" /\ world.list_namespace = "ok"
IsPrefix(s, t) == Len(s) =< Len(t) /\ \A i \in DOMAIN s : s[i] = t[i]
MetricsOps == {"get_cluster_metrics", "get_pod_metrics"}
\* p takes, in this step, the handler op from idle
Handles(p, op) == proc[p].pc = "idle" /\ proc'[p].pc # "idle" /\ proc'[p].op = op

C2_ProbeSuccessRegisters ==
    [][\A p \in Reqs :
         (Handles(p, "create_cluster") /\ ProbeOk(proc'[p].world)) =>
            /\ proc'[p].status = 200
            /\ Len(CLUSTERS') = Len(CLUSTERS) + 1
            /\ IsPrefix(CLUSTERS, CLUSTERS')
            /\ CLUSTERS'[Len(CLUSTERS')].status = "active"
            /\ CLUSTERS'[Len(CLUSTERS')].namespaces = NamespaceNames
            /\ proc'[p].body = ClusterDump(CLUSTERS'[Len(CLUSTERS')])]_vars

\* C3: a registration whose probe fails answers with an error and leaves the
\* registry, hence every later listing, exactly as it was.
C3_FailedProbeLeavesRegistry ==
    [][\A p \in Reqs :
         (Handles(p, "create_cluster") /\ ~ProbeOk(proc'[p].world)) =>
            /\ proc'[p].status = 400
            /\ CLUSTERS' = CLUSTERS
            /\ get_clusters(CLUSTERS').body = get_clusters(CLUSTERS).body]_vars

\* C3 witness: a registration with a failing probe has ended in an error
C3_Witness ==
    \E p \in Reqs :
        /\ IsDone(p, "create_cluster")
        /\ ~ProbeOk(proc[p].world)
        /\ proc[p].status = 400
        /\ CLUSTERS = <<>>

\* C4: when every outstanding request is a registration with valid
\* credentials, all of them succeeded, their ids are pairwise distinct and
\* each returned record is in the listing.
C4_ConcurrentRegistrationsAllLand ==
    (\A p \in Reqs : IsDone(p, "create_cluster") /\ ProbeOk(proc[p].world)) =>
        /\ \A p \in Reqs : proc[p].status = 200
        /\ \A p, q \in Reqs : p # q => proc[p].body.id # proc[q].body.id
        /\ \A p \in Reqs :
              \E i \in DOMAIN CLUSTERS : ClusterDump(CLUSTERS[i]) = proc[p].body
        /\ Len(CLUSTERS) >= NumReqs

\* C5: a metrics request for an id no record has answers 404, one for a
\* record without prometheus_url answers 400; a pods request for an id no
\* record has answers 404; in all three no query or control-plane call is
\* made and the registry is unchanged.
C5_LookupOutcomes ==
    [][\A p \in Reqs :
         /\ Handles(p, "get_cluster_metrics") =>
              LET i == FindCluster(CLUSTERS, proc'[p].cluster_id)
              IN /\ i = 0 =>
                      /\ proc'[p].pc = "done" /\ proc'[p].status = 404
                      /\ proc'[p].issued = 0 /\ CLUSTERS' = CLUSTERS
                 /\ (i # 0 /\ CLUSTERS[i].prometheus_url \in {None, ""}) =>
                      /\ proc'[p].pc = "done" /\ proc'[p].status = 400
                      /\ proc'[p].issued = 0 /\ CLUSTERS' = CLUSTERS
         /\ Handles(p, "get_cluster_pods") =>
              (FindCluster(CLUSTERS, proc'[p].cluster_id) = 0 =>
                  /\ proc'[p].status = 404 /\ proc'[p].calls = 0
                  /\ CLUSTERS' = CLUSTERS)]_vars

\* C5 witness: a metrics request and a pods request for unregistered ids have
\* both been answered 404
C5_Witness ==
    \E p, q \in Reqs :
        /\ IsDone(p, "get_cluster_metrics") /\ proc[p].status = 404
        /\ FindCluster(CLUSTERS, proc[p].cluster_id) = 0
        /\ IsDone(q, "get_cluster_pods") /\ proc[q].status = 404
        /\ FindCluster(CLUSTERS, proc[q].cluster_id) = 0

\* C6: a finished get_cluster_metrics / get_pod_metrics call in which any
\* underlying query failed has raised and carries no result; through the
\* route it is a 500 without a body.
C6_AllOrNothing ==
    \A p \in Procs :
        (/\ proc[p].pc = "done" /\ proc[p].op \in MetricsOps
         /\ \E i \in DOMAIN proc[p].outcomes : QueryFailed(proc[p].outcomes[i])) =>
            /\ proc[p].raised
            /\ "value" \notin DOMAIN proc[p]
            /\ "body" \notin DOMAIN proc[p]
            /\ proc[p].via = "route" => proc[p].status = 500

\* C6 witness: a cluster-metrics call whose third query failed after two
\* succeeded has ended by raising
C6_Witness ==
    /\ IsDone(Direct, "get_cluster_metrics")
    /\ Len(proc[Direct].outcomes) = 3
    /\ ~QueryFailed(proc[Direct].outcomes[2])
    /\ QueryFailed(proc[Direct].outcomes[3])
    /\ proc[Direct].raised

\* C7: a finished cluster-metrics call all four of whose queries succeeded
\* has not failed, and its result has exactly the fields timestamp, cpu_usage,
\* memory_usage, pod_count and node_count at the top level.
C7_SnapshotIsFlat ==
    \A p \in Procs :
        (/\ IsDone(p, "get_cluster_metrics")
         /\ Len(proc[p].outcomes) = Len(ClusterMetricNames)
         /\ \A i \in DOMAIN proc[p].outcomes : ~QueryFailed(proc[p].outcomes[i])) =>
            /\ ~proc[p].raised
            /\ proc[p].via = "route" =>
                  proc[p].status = 200 /\ DOMAIN proc[p].body = ClusterMetricsFields
            /\ proc[p].via = "direct" => DOMAIN proc[p].value = ClusterMetricsFields

WellFormed(m) ==
    /\ m.yaml = "ok" /\ m.doc.t = "map"
    /\ \A k \in {"apiVersion", "kind"} : k \in DOMAIN m.doc.m => m.doc.m[k].t = "str"
    /\ "metadata" \in DOMAIN m.doc.m =>
          /\ m.doc.m["metadata"].t = "map"
          /\ \A k \in DOMAIN m.doc.m["metadata"].m : m.doc.m["metadata"].m[k].t = "str"
IsDeployment(m) ==
    /\ "kind" \in DOMAIN m.doc.m
    /\ m.doc.m["kind"].s \in {sDeployment, sdeployment, sDEPLOYMENT}
ManifestNamespace(m) ==
    IF "metadata" \in DOMAIN m.doc.m /\ "namespace" \in DOMAIN m.doc.m["metadata"].m
    THEN m.doc.m["metadata"].m["namespace"].s
    ELSE sDefault

\* C8: apply_manifest on a well-formed manifest of kind deployment (any
\* letter case) makes exactly one create-deployment call, in
\* metadata.namespace or "default", and returns its result or fails when it
\* is rejected; on any other or no kind it makes no call and returns None
\* without raising; an unparseable or non-mapping document raises.
C8_ApplyManifest ==
    IsDone(Direct, "apply_manifest") =>
        LET m == proc[Direct].manifest
            r == proc[Direct]
        IN /\ (WellFormed(m) /\ IsDeployment(m)) =>
                /\ Len(r.calls) = 1
                /\ r.calls[1].api = "create_namespaced_deployment"
                /\ r.calls[1].namespace = ManifestNamespace(m)
                /\ r.raised \/ r.returned = "V1Deployment"
                /\ r.raised => r.detail = "ApiException"
           /\ (WellFormed(m) /\ ~IsDeployment(m)) =>
                r.calls = <<>> /\ ~r.raised /\ r.returned = None
           /\ (m.yaml = "error" \/ m.doc.t # "map") => r.raised /\ r.calls = <<>>

\* C8 witness: a manifest of kind "Deployment" without metadata has been
\* applied with one call in namespace "default"
C8_Witness ==
    /\ IsDone(Direct, "apply_manifest")
    /\ WellFormed(proc[Direct].manifest)
    /\ "kind" \in DOMAIN proc[Direct].manifest.doc.m
    /\ proc[Direct].manifest.doc.m["kind"].s = sDeployment
    /\ "metadata" \notin DOMAIN proc[Direct].manifest.doc.m
    /\ Len(proc[Direct].calls) = 1
    /\ proc[Direct].calls[1].namespace = sDefault
    /\ ~proc[Direct].raised

C10_AllQueriesIssued ==
    \A p \in Procs :
        (/\ proc[p].pc = "done" /\ proc[p].op \in MetricsOps
         /\ Len(proc[p].outcomes) > 0) =>
            proc[p].issued = Len(proc[p].names)

\* C10 amended: the queries of one call are issued one at a time in the order
\* written; a query is issued only once every earlier one has returned
\* successfully, and the first failure ends the call with the later queries
\* never issued.
C10_QueriesSequential ==
    \A p \in Procs :
        /\ (proc[p].pc = "query") =>
              /\ proc[p].issued = Len(proc[p].got) + (IF proc[p].inflight THEN 1 ELSE 0)
              /\ Len(proc[p].outcomes) = Len(proc[p].got)
              /\ \A i \in DOMAIN proc[p].outcomes : ~QueryFailed(proc[p].outcomes[i])
        /\ (proc[p].pc = "done" /\ proc[p].op \in MetricsOps) =>
              /\ proc[p].issued = Len(proc[p].outcomes)
              /\ \A i \in DOMAIN proc[p].outcomes :
                    QueryFailed(proc[p].outcomes[i]) => i = Len(proc[p].outcomes)

\* C10 witness: a pod-metrics call whose first query failed has ended with
\* one query issued out of three
C10_Witness ==
    /\ IsDone(Direct, "get_pod_metrics")
    /\ proc[Direct].issued = 1
    /\ Len(proc[Direct].names) = 3
    /\ QueryFailed(proc[Direct].outcomes[1])
    /\ proc[Direct].raised

====
